---- MODULE Spec2Model ----
(***************************************************************************)
(* Model of the report-converter command line                              *)
(* (tools/report-converter/codechecker_report_converter/cli.py).           *)
(*                                                                         *)
(* The state is the output directory on disk, the arguments of the call    *)
(* in progress, the position inside main / output_to_plist, and what the   *)
(* call has done so far.  Strings that the code takes apart (the --meta    *)
(* entries) are sequences of one-character strings, so that                *)
(* str.split("=", 1) is computed rather than assumed.                      *)
(***************************************************************************)
EXTENDS Integers, Sequences, FiniteSets, TLC

VARIABLES
    fsKind,          \* what os.path sees at output_dir: "dir" (isdir), "file"
                     \* (exists, not isdir) or "absent" (exists is False)
    fsUnseen,        \* os.path.exists(output_dir) is False and yet something
                     \* is at the path: a dangling symbolic link, or a path
                     \* with a component that does not resolve ("x/../y/.",
                     \* "newdir/..") and leads to a directory or a file
    fsFiles,         \* the artifacts in the directory output_dir leads to:
                     \* artifact -> content or NoFile
    pc,              \* position of the call in progress
    entry,           \* "main", "output_to_plist", or "none" before the first call
    analyzer_result, \* args.input / analyzer_result
    parser_type,     \* args.type / parser_type
    clean,           \* args.clean / clean
    meta,            \* args.meta: [none |-> BOOLEAN, entries |-> list of strings]
    pm,              \* what process_metadata(args.meta) gave main
    metadata,        \* metadata parameter of output_to_plist: [none, dict]
    error_log,       \* the LOG.error record of main, if any
    raised,          \* the exception that ended the call, "none" if none
    exit_status,     \* exit status of the process running main, NoStatus if none
    ops,             \* filesystem calls made by the call so far, in order
    transform_args,  \* arguments transform was invoked with
    written,         \* artifacts written by the transform of this call
    warnings,        \* transform finished with parser-level warnings
    preKind,         \* fsKind when the call started
    preFiles,        \* fsFiles when the call started
    preUnseen,       \* fsUnseen when the call started
    kept             \* the latest write to each artifact by the calls with
                     \* clean false made since the last call with clean true

vars == << fsKind, fsUnseen, fsFiles, pc, entry, analyzer_result, parser_type, clean,
           meta, pm, metadata, error_log, raised, exit_status, ops,
           transform_args, written, warnings, preKind, preFiles,
           preUnseen, kept >>

----------------------------------------------------------------------------
(* Bounds *)

\* longest --meta list tried
MaxMeta == 3

----------------------------------------------------------------------------
(* Strings, as sequences of characters *)

analyzer_command ==
    << "a","n","a","l","y","z","e","r","_","c","o","m","m","a","n","d" >>

analyzer_version ==
    << "a","n","a","l","y","z","e","r","_","v","e","r","s","i","o","n" >>

\* supported_metadata_keys = ["analyzer_command", "analyzer_version"]
supported_metadata_keys == << analyzer_command, analyzer_version >>

\* Python's `x in list`
InList(x, list) == \E i \in 1..Len(list) : list[i] = x

\* the converters registered in supported_converters, by class
supported_converters ==
    { "ClangTidyAnalyzerResult", "CppcheckAnalyzerResult",
      "InferAnalyzerResult", "GolintAnalyzerResult", "ASANAnalyzerResult",
      "ESLintAnalyzerResult", "MSANAnalyzerResult", "PylintAnalyzerResult",
      "PyflakesAnalyzerResult", "TSANAnalyzerResult", "TSLintAnalyzerResult",
      "UBSANAnalyzerResult", "SpotBugsAnalyzerResult" }

----------------------------------------------------------------------------
(* Python dictionaries with string keys: functions on the set of keys *)

EmptyDict == [k \in {} |-> << >>]

\* d[key] = value
DictSet(d, key, value) ==
    [k \in (DOMAIN d) \cup {key} |-> IF k = key THEN value ELSE d[k]]

----------------------------------------------------------------------------
(* process_metadata *)

HasEq(m) == \E i \in 1..Len(m) : m[i] = "="

FirstEq(m) ==
    CHOOSE i \in 1..Len(m) : m[i] = "=" /\ \A j \in 1..(i-1) : m[j] # "="

\* a plausible slip: m.split("=") with the first two parts taken, which
\* cuts the value at its first "="
split_all_first_two(m) ==
    IF HasEq(m)
    THEN LET i == FirstEq(m)
             rest == SubSeq(m, i + 1, Len(m))
         IN  << SubSeq(m, 1, i - 1),
                IF HasEq(rest) THEN SubSeq(rest, 1, FirstEq(rest) - 1)
                               ELSE rest >>
    ELSE << m >>

\* m.split("=", 1): one part when m holds no "=", else the text before the
\* first "=" and everything after it
split(m) ==
    IF HasEq(m)
    THEN LET i == FirstEq(m)
         IN  << SubSeq(m, 1, i - 1), SubSeq(m, i + 1, Len(m)) >>
    ELSE << m >>

\* the loop with a plausible slip: unknown keys are dropped, not collected
RECURSIVE pm_loop_dropping(_, _, _, _)
pm_loop_dropping(list, i, valid_values, invalid_values) ==
    IF i > Len(list)
    THEN [raised |-> "none", valid |-> valid_values, invalid |-> invalid_values]
    ELSE LET parts == split(list[i])
         IN  IF Len(parts) # 2
             THEN [raised |-> "ValueError", valid |-> EmptyDict,
                   invalid |-> EmptyDict]
             ELSE IF InList(parts[1], supported_metadata_keys)
                  THEN pm_loop_dropping(list, i + 1,
                           DictSet(valid_values, parts[1], parts[2]),
                           invalid_values)
                  ELSE pm_loop_dropping(list, i + 1, valid_values,
                           invalid_values)

\* the for loop of process_metadata from entry i on; `key, value = ...`
\* raises ValueError when split gives one part
RECURSIVE pm_loop(_, _, _, _)
pm_loop(list, i, valid_values, invalid_values) ==
    IF i > Len(list)
    THEN [raised |-> "none", valid |-> valid_values, invalid |-> invalid_values]
    ELSE LET parts == split(list[i])
         IN  IF Len(parts) # 2
             THEN [raised |-> "ValueError", valid |-> EmptyDict,
                   invalid |-> EmptyDict]
             ELSE IF InList(parts[1], supported_metadata_keys)
                  THEN pm_loop(list, i + 1,
                           DictSet(valid_values, parts[1], parts[2]),
                           invalid_values)
                  ELSE pm_loop(list, i + 1, valid_values,
                           DictSet(invalid_values, parts[1], parts[2]))

\* process_metadata with unknown keys silently dropped
process_metadata_dropping(m) ==
    IF m.none \/ m.entries = << >>
    THEN [raised |-> "none", valid |-> EmptyDict, invalid |-> EmptyDict]
    ELSE pm_loop_dropping(m.entries, 1, EmptyDict, EmptyDict)

\* process_metadata(metadata): (valid_values, invalid_values), or ValueError;
\* `if not metadata` covers both None and the empty list
process_metadata(m) ==
    IF m.none \/ m.entries = << >>
    THEN [raised |-> "none", valid |-> EmptyDict, invalid |-> EmptyDict]
    ELSE pm_loop(m.entries, 1, EmptyDict, EmptyDict)

----------------------------------------------------------------------------
(* The values the calls are tried with *)

\* --meta entries: allowed keys, a value holding "=", an empty value, a
\* key outside the allow-list, an empty key, and an entry without "="
MetaEntries ==
    { analyzer_version \o << "=", "1" >>,
      analyzer_version \o << "=", "1", "=", "2" >>,
      analyzer_command \o << "=" >>,
      << "b", "a", "d", "=", "1" >>,
      << "=", "1" >>,
      analyzer_version }

MetaLists == UNION { [1..n -> MetaEntries] : n \in 0..MaxMeta }

\* args.meta: None when --meta is not given, else the list of its values
NoMeta == [none |-> TRUE, entries |-> << >>]

MetaArgs == {NoMeta} \cup { [none |-> FALSE, entries |-> l] : l \in MetaLists }

\* tool kinds asked for: two registered ones and one that is not
RequestedKinds ==
    { "ClangTidyAnalyzerResult", "CppcheckAnalyzerResult", "unknown-tool" }

\* analyzer output files given as input
Inputs == { "report1", "report2" }

\* artifact files a transform may write into output_dir
Artifacts == { "a.plist", "b.plist" }

NoFile == "nofile"

NoFiles == [a \in Artifacts |-> NoFile]

\* metadata=None, the default of output_to_plist
NoMetadata == [none |-> TRUE, dict |-> EmptyDict]

\* metadata a direct caller of output_to_plist passes
DirectMetadata ==
    { NoMetadata,
      [none |-> FALSE, dict |-> EmptyDict],
      [none |-> FALSE, dict |-> DictSet(EmptyDict, analyzer_version, << "1" >>)] }

NoStatus == -1

NoPm == [raised |-> "notcalled", valid |-> EmptyDict, invalid |-> EmptyDict]

NoLog == [logged |-> FALSE, invalid |-> {}, allowed |-> {}]

NoTransform ==
    [called |-> FALSE, converter |-> "none", analyzer_result |-> "none",
     output_kind |-> "none", metadata |-> NoMetadata]

Range(list) == { list[i] : i \in 1..Len(list) }

----------------------------------------------------------------------------
(* Initial state: nothing called yet, any output directory *)

Init ==
    /\ fsKind \in { "absent", "dir", "file" }
    /\ fsFiles \in [Artifacts -> Inputs \cup {NoFile}]
    /\ fsUnseen \in BOOLEAN
    /\ (fsUnseen => fsKind = "absent")
    /\ (fsFiles # NoFiles => (fsKind = "dir" \/ fsUnseen))
    /\ pc = "idle"
    /\ entry = "none"
    /\ analyzer_result = "none"
    /\ parser_type = "none"
    /\ clean = FALSE
    /\ meta = NoMeta
    /\ pm = NoPm
    /\ metadata = NoMetadata
    /\ error_log = NoLog
    /\ raised = "none"
    /\ exit_status = NoStatus
    /\ ops = << >>
    /\ transform_args = NoTransform
    /\ written = {}
    /\ warnings = FALSE
    /\ preKind = fsKind
    /\ preFiles = fsFiles
    /\ preUnseen = fsUnseen
    /\ kept = NoFiles

\* a new process starts a call: nothing done yet, the directory as it is
Begin ==
    /\ pc = "idle"
    /\ pm' = NoPm
    /\ error_log' = NoLog
    /\ ops' = << >>
    /\ transform_args' = NoTransform
    /\ written' = {}
    /\ warnings' = FALSE
    /\ preKind' = fsKind
    /\ preFiles' = fsFiles
    /\ preUnseen' = fsUnseen
    /\ UNCHANGED << fsKind, fsUnseen, fsFiles >>

----------------------------------------------------------------------------
(* main *)

\* exit status of the process once main is over: output_to_plist returns
\* None whatever transform reported, an uncaught exception gives 1
main_exit_status_warning_aware(r, w) ==
    IF r = "none" THEN (IF w THEN 1 ELSE 0) ELSE 1

main_exit_status(r, w) == IF r = "none" THEN 0 ELSE 1

\* parser.parse_args(): -t/--type has choices=supported_converters, and
\* argparse exits with status 2 on a value outside them
MainParseArgs ==
    /\ Begin
    /\ \E i \in Inputs, t \in RequestedKinds, c \in BOOLEAN, m \in MetaArgs :
        /\ entry' = "main"
        /\ analyzer_result' = i
        /\ parser_type' = t
        /\ clean' = c
        /\ kept' = (IF c THEN NoFiles ELSE kept)
        /\ meta' = m
        /\ metadata' = NoMetadata
        /\ IF t \in supported_converters
           THEN /\ raised' = "none"
                /\ exit_status' = NoStatus
                /\ pc' = "main_metadata"
           ELSE /\ raised' = "SystemExit"
                /\ exit_status' = 2
                /\ pc' = "done"

\* main, from process_metadata(args.meta) to the call of output_to_plist
MainProcessMetadata ==
    /\ pc = "main_metadata"
    /\ LET r == process_metadata(meta)
       IN  /\ pm' = r
           /\ IF r.raised # "none"
              THEN /\ raised' = r.raised
                   /\ exit_status' = main_exit_status(r.raised, FALSE)
                   /\ pc' = "done"
                   /\ UNCHANGED << error_log, metadata >>
              ELSE IF DOMAIN r.invalid # {}
              THEN /\ error_log' = [logged |-> TRUE,
                                    invalid |-> DOMAIN r.invalid,
                                    allowed |-> Range(supported_metadata_keys)]
                   /\ raised' = "SystemExit"
                   /\ exit_status' = 1
                   /\ pc' = "done"
                   /\ UNCHANGED metadata
              ELSE /\ metadata' = [none |-> FALSE, dict |-> r.valid]
                   /\ pc' = "clean"
                   /\ UNCHANGED << error_log, raised, exit_status >>
    /\ UNCHANGED << fsKind, fsUnseen, fsFiles, entry, analyzer_result,
                    parser_type, clean, meta, ops, transform_args, written,
                    warnings, preKind, preFiles, preUnseen, kept >>

----------------------------------------------------------------------------
(* output_to_plist *)

\* output_to_plist called directly, by a caller other than main
OutputToPlistCall ==
    /\ Begin
    /\ \E i \in Inputs, t \in RequestedKinds, c \in BOOLEAN,
          md \in DirectMetadata :
        /\ entry' = "output_to_plist"
        /\ analyzer_result' = i
        /\ parser_type' = t
        /\ clean' = c
        /\ kept' = (IF c THEN NoFiles ELSE kept)
        /\ metadata' = md
    /\ meta' = NoMeta
    /\ raised' = "none"
    /\ exit_status' = NoStatus
    /\ pc' = "clean"

\* the exceptions shutil.rmtree and os.makedirs raise on any path: OSError
\* and its subclasses, and RecursionError on a tree or a path too deep
FsErrors == { "OSError", "RecursionError" }

\* the clean step with the test of the flag lost
CleanStepAlways ==
    /\ pc = "clean"
    /\ IF fsKind = "dir"
       THEN /\ fsKind' = "absent"
            /\ fsFiles' = NoFiles
            /\ ops' = Append(ops, "rmtree")
       ELSE UNCHANGED << fsKind, fsFiles, ops >>
    /\ pc' = "makedirs"
    /\ UNCHANGED << fsUnseen, entry, analyzer_result, parser_type, clean,
                    meta, pm, metadata, error_log, raised, exit_status,
                    transform_args, written, warnings, preKind, preFiles,
                    preUnseen, kept >>

\* the directory after shutil.rmtree removed the artifacts R and then
\* raised: the directory itself is still there
RmtreePartial(files, R) ==
    [a \in Artifacts |-> IF a \in R THEN NoFile ELSE files[a]]

\* if clean and os.path.isdir(output_dir): shutil.rmtree(output_dir).
\* rmtree either removes the whole tree, or raises (an entry that may not
\* be deleted, a symbolic link to a directory, a tree too deep) after
\* removing some of the entries, none or all, or raises on its last rmdir
\* with the whole tree gone and the path no longer resolving (a path
\* ending in "sub/.."); the exception ends output_to_plist and main.
CleanStep ==
    /\ pc = "clean"
    /\ IF clean /\ fsKind = "dir"
       THEN /\ ops' = Append(ops, "rmtree")
            /\ \/ /\ fsKind' = "absent"
                  /\ fsUnseen' = FALSE
                  /\ fsFiles' = NoFiles
                  /\ pc' = "makedirs"
                  /\ UNCHANGED << raised, exit_status >>
               \/ /\ \/ /\ \E R \in SUBSET { a \in Artifacts :
                                                  fsFiles[a] # NoFile } :
                                fsFiles' = RmtreePartial(fsFiles, R)
                          /\ fsKind' = fsKind
                          /\ fsUnseen' = fsUnseen
                       \/ /\ fsFiles' = NoFiles
                          /\ fsKind' = "absent"
                          /\ fsUnseen' = TRUE
                  /\ raised' \in FsErrors
                  /\ exit_status' = IF entry = "main"
                                    THEN main_exit_status(raised', FALSE)
                                    ELSE NoStatus
                  /\ pc' = "done"
       ELSE /\ pc' = "makedirs"
            /\ UNCHANGED << fsKind, fsUnseen, fsFiles, ops, raised,
                            exit_status >>
    /\ UNCHANGED << entry, analyzer_result, parser_type, clean, meta, pm,
                    metadata, error_log, transform_args,
                    written, warnings, preKind, preFiles, preUnseen, kept >>

\* the creation step calling makedirs whatever is at the path
MakedirsStepAlways ==
    /\ pc = "makedirs"
    /\ fsKind' = IF fsKind = "absent" THEN "dir" ELSE fsKind
    /\ fsUnseen' = FALSE
    /\ ops' = Append(ops, "makedirs")
    /\ pc' = "lookup"
    /\ UNCHANGED << fsFiles, entry, analyzer_result, parser_type, clean, meta,
                    pm, metadata, error_log, raised, exit_status,
                    transform_args, written, warnings, preKind, preFiles,
                    preUnseen, kept >>

\* what os.makedirs(output_dir) may do on a path os.path.exists does not
\* see, as [raises, kind, unseen]: whether it raises, and what os.path
\* sees at the path afterwards.
\* Nothing at the path: the directory is made and makedirs returns; or it
\* raises, with the path as it was (a parent that is a regular file, no
\* permission, a path too long) or with a directory there all the same.
\* Something at the path: makedirs returns although it made nothing at
\* the path, which now leads to the directory that was there ("x/../y/."
\* with y a directory) or still does not resolve (y a regular file, a
\* dangling symbolic link followed by "/."); or it raises, with the path
\* as it was (a dangling symbolic link) or now leading to the directory
\* ("x/../y", "newdir/..") or to the regular file that was there.
MakedirsOutcomes(unseen, files) ==
    IF ~unseen
    THEN { [raises |-> FALSE, kind |-> "dir", unseen |-> FALSE],
           [raises |-> TRUE, kind |-> "absent", unseen |-> FALSE],
           [raises |-> TRUE, kind |-> "dir", unseen |-> FALSE] }
    ELSE { [raises |-> FALSE, kind |-> "dir", unseen |-> FALSE],
           [raises |-> FALSE, kind |-> "absent", unseen |-> TRUE],
           [raises |-> TRUE, kind |-> "absent", unseen |-> TRUE],
           [raises |-> TRUE, kind |-> "dir", unseen |-> FALSE] }
         \cup (IF files = NoFiles
               THEN { [raises |-> TRUE, kind |-> "file", unseen |-> FALSE] }
               ELSE { })

\* the exceptions of a raising os.makedirs: ValueError is for a path
\* holding a NUL character, which only a direct caller can pass and which
\* leaves the path as it was
MakedirsErrors(caller, o) ==
    FsErrors \cup (IF caller = "output_to_plist" /\ o.kind = "absent"
                   THEN { "ValueError" } ELSE { })

\* if not os.path.exists(output_dir): os.makedirs(output_dir).
\* An exception of makedirs ends output_to_plist and main; when makedirs
\* returns the call goes on, whatever is at the path then.
MakedirsStep ==
    /\ pc = "makedirs"
    /\ IF fsKind = "absent"
       THEN /\ ops' = Append(ops, "makedirs")
            /\ \E o \in MakedirsOutcomes(fsUnseen, fsFiles) :
                /\ fsKind' = o.kind
                /\ fsUnseen' = o.unseen
                /\ IF o.raises
                   THEN /\ raised' \in MakedirsErrors(entry, o)
                        /\ exit_status' = IF entry = "main"
                                          THEN main_exit_status(raised', FALSE)
                                          ELSE NoStatus
                        /\ pc' = "done"
                   ELSE /\ pc' = "lookup"
                        /\ UNCHANGED << raised, exit_status >>
       ELSE /\ pc' = "lookup"
            /\ UNCHANGED << fsKind, fsUnseen, ops, raised, exit_status >>
    /\ UNCHANGED << fsFiles, entry, analyzer_result, parser_type, clean, meta,
                    pm, metadata, error_log,
                    transform_args, written, warnings, preKind, preFiles,
                    preUnseen, kept >>

\* parser = supported_converters[parser_type](): KeyError on a kind that
\* is not registered
LookupStep ==
    /\ pc = "lookup"
    /\ IF parser_type \in supported_converters
       THEN /\ pc' = "transform"
            /\ UNCHANGED << raised, exit_status >>
       ELSE /\ raised' = "KeyError"
            /\ exit_status' = IF entry = "main"
                              THEN main_exit_status("KeyError", FALSE)
                              ELSE NoStatus
            /\ pc' = "done"
    /\ UNCHANGED << fsKind, fsUnseen, fsFiles, entry, analyzer_result,
                    parser_type, clean, meta, pm, metadata, error_log, ops,
                    transform_args, written, warnings, preKind, preFiles,
                    preUnseen, kept >>

\* what a converter's transform may do, given what is at output_dir: it
\* ends "ok", with "warnings", or raises; it writes artifacts W and
\* removes none.  A hard parse failure comes before any write; without a
\* directory at output_dir nothing can be written, and a transform with
\* nothing to write may still return.
TransformResults(kind) ==
    IF kind = "dir"
    THEN { [outcome |-> o, W |-> W] :
             o \in { "ok", "warnings", "OSError" }, W \in SUBSET Artifacts }
         \cup { [outcome |-> "ParseError", W |-> {}] }
    ELSE { [outcome |-> o, W |-> {}] :
             o \in { "ok", "warnings", "OSError", "ParseError" } }

\* the directory after transform wrote artifacts W from the given input
TransformWrite(files, W, input) ==
    [a \in Artifacts |-> IF a \in W THEN input ELSE files[a]]

\* parser.transform(analyzer_result, output_dir, metadata), then the
\* return of output_to_plist and of main
TransformStep ==
    /\ pc = "transform"
    /\ transform_args' = [called |-> TRUE, converter |-> parser_type,
                          analyzer_result |-> analyzer_result,
                          output_kind |-> fsKind, metadata |-> metadata]
    /\ ops' = Append(ops, "transform")
    /\ \E r \in TransformResults(fsKind) :
        /\ fsFiles' = TransformWrite(fsFiles, r.W, analyzer_result)
        /\ written' = r.W
        /\ warnings' = (r.outcome = "warnings")
        /\ raised' = IF r.outcome \in { "ok", "warnings" } THEN "none"
                     ELSE r.outcome
        /\ exit_status' = IF entry = "main"
                          THEN main_exit_status(raised', warnings')
                          ELSE NoStatus
        /\ kept' = (IF clean THEN kept
                     ELSE TransformWrite(kept, r.W, analyzer_result))
    /\ pc' = "done"
    /\ UNCHANGED << fsKind, fsUnseen, entry, analyzer_result, parser_type,
                    clean, meta, pm, metadata, error_log, preKind, preFiles,
                    preUnseen >>

\* the call is over and the process ends: only the disk keeps anything
Exit ==
    /\ pc = "done"
    /\ pc' = "idle"
    /\ entry' = "none"
    /\ analyzer_result' = "none"
    /\ parser_type' = "none"
    /\ clean' = FALSE
    /\ meta' = NoMeta
    /\ pm' = NoPm
    /\ metadata' = NoMetadata
    /\ error_log' = NoLog
    /\ raised' = "none"
    /\ exit_status' = NoStatus
    /\ ops' = << >>
    /\ transform_args' = NoTransform
    /\ written' = {}
    /\ warnings' = FALSE
    /\ preKind' = fsKind
    /\ preFiles' = fsFiles
    /\ preUnseen' = fsUnseen
    /\ UNCHANGED << fsKind, fsUnseen, fsFiles, kept >>

----------------------------------------------------------------------------

Next ==
    \/ Exit
    \/ MainParseArgs
    \/ MainProcessMetadata
    \/ OutputToPlistCall
    \/ CleanStep
    \/ MakedirsStep
    \/ LookupStep
    \/ TransformStep

Spec == Init /\ [][Next]_vars

----------------------------------------------------------------------------
(* What the claims speak of, stated on the entries themselves *)

\* the allow-list of metadata keys
AllowedKeys == { analyzer_command, analyzer_version }

\* the position of the first "=" of an entry, if it has one
EqAt(m) == { i \in 1..Len(m) : m[i] = "=" /\ \A j \in 1..(i-1) : m[j] # "=" }

WellFormed(m) == EqAt(m) # {}

\* the keys of the entries of the form key=value
KeysOf(list) ==
    UNION { { SubSeq(list[n], 1, i - 1) : i \in EqAt(list[n]) } :
            n \in 1..Len(list) }

\* the values given for key k, with the index of the entry giving each
ValuesOf(list, k) ==
    UNION { { << n, SubSeq(list[n], i + 1, Len(list[n])) >> :
                i \in { x \in EqAt(list[n]) : SubSeq(list[n], 1, x - 1) = k } } :
            n \in 1..Len(list) }

AllWellFormed(list) == \A n \in 1..Len(list) : WellFormed(list[n])

AllAllowed(list) == AllWellFormed(list) /\ KeysOf(list) \subseteq AllowedKeys

\* the call has entered output_to_plist (main hands it a dictionary)
InOutputToPlist ==
    \/ entry = "output_to_plist"
    \/ entry = "main" /\ ~metadata.none

MainDone == entry = "main" /\ pc = "done"

MainPassedArgparse == MainDone /\ parser_type \in supported_converters

DiskUntouched ==
    /\ ops = << >>
    /\ fsKind = preKind /\ fsUnseen = preUnseen /\ fsFiles = preFiles

InvalidMetadataError ==
    /\ raised = "SystemExit"
    /\ exit_status = 1
    /\ error_log.logged
    /\ error_log.invalid = KeysOf(meta.entries) \ AllowedKeys
    /\ error_log.allowed = AllowedKeys

Rank(op) == CASE op = "rmtree" -> 1 [] op = "makedirs" -> 2 [] OTHER -> 3

----------------------------------------------------------------------------
(* Claims *)

\* C1: an invocation of main with at least one metadata key outside the
\* allow-list fails with the invalid-metadata error and touches nothing on
\* disk: no removal, no creation, no transform.
C1_InvalidKeyFailsWithoutWrites ==
    (MainPassedArgparse /\ KeysOf(meta.entries) \ AllowedKeys # {})
        => /\ InvalidMetadataError
           /\ DiskUntouched
           /\ ~transform_args.called

\* C2: a request whose tool kind is not registered fails before any change
\* of the disk, through main and through output_to_plist alike.
C2_UnknownToolFailsBeforeMutation ==
    (entry # "none" /\ parser_type \notin supported_converters)
        => /\ DiskUntouched
           /\ (pc = "done" => raised # "none")

\* the output directory was there when the call started: a directory
\* os.path sees, or one holding artifacts behind a path it does not see
PreExistingDir ==
    \/ preKind = "dir"
    \/ preKind = "absent" /\ preUnseen /\ preFiles # NoFiles

\* C3: after a completed conversion with clean=true on an output directory
\* that existed, the directory holds only artifacts written by this
\* invocation's transform: no artifact from before the invocation that it
\* did not write remains.
C3_CleanLeavesOnlyCurrentRun ==
    (pc = "done" /\ InOutputToPlist /\ raised = "none" /\ clean
       /\ PreExistingDir)
        => \A a \in Artifacts : fsFiles[a] # NoFile => a \in written

\* os.makedirs has returned in this call
MakedirsReturned ==
    \/ pc \in { "lookup", "transform" }
    \/ pc = "done" /\ (transform_args.called \/ raised = "KeyError")

\* C4 as stated: with clean=false output_to_plist removes nothing: an
\* absent directory is created, and in an existing one every artifact the
\* transform does not write is still there with the content it had.
C4_NoCleanAccumulates ==
    (InOutputToPlist /\ ~clean /\ pc \in { "lookup", "transform", "done" })
        => /\ \A i \in 1..Len(ops) : ops[i] # "rmtree"
           /\ (preKind = "absent" => fsKind = "dir")
           /\ (preKind = "dir" =>
                 /\ fsKind = "dir"
                 /\ \A a \in Artifacts :
                      (preFiles[a] # NoFile /\ a \notin written)
                          => fsFiles[a] = preFiles[a])

\* C4, amended: with clean=false output_to_plist never calls rmtree and
\* removes nothing: every artifact there before the call that the
\* transform does not write is still there with the content it had.  What
\* os.path.exists sees is left as it is, without a call of makedirs; when
\* it sees nothing os.makedirs is called, once and before anything else,
\* and where nothing is at the path the directory is there once makedirs
\* has returned; a call that has done no more than makedirs has ended with
\* an exception and without transform.  After any sequence of calls with
\* clean false, every artifact one of them wrote is in the directory with
\* the content of its latest write.
C4_NoCleanRemovesNothing ==
    /\ (InOutputToPlist /\ ~clean) =>
          /\ \A i \in 1..Len(ops) : ops[i] # "rmtree"
          /\ \A a \in Artifacts :
               (preFiles[a] # NoFile /\ a \notin written)
                   => fsFiles[a] = preFiles[a]
          /\ preKind # "absent" =>
               /\ fsKind = preKind
               /\ \A i \in 1..Len(ops) : ops[i] # "makedirs"
          /\ (preKind = "absent" /\ pc \in { "lookup", "transform", "done" }) =>
               /\ ops # << >> /\ ops[1] = "makedirs"
               /\ \A i \in 2..Len(ops) : ops[i] # "makedirs"
          /\ (preKind = "absent" /\ ~preUnseen /\ MakedirsReturned) =>
               fsKind = "dir"
          /\ (pc = "done" /\ ops = << "makedirs" >>) =>
               (raised # "none" /\ ~transform_args.called)
    /\ \A a \in Artifacts : kept[a] # NoFile => fsFiles[a] = kept[a]

C4_Witness ==
    /\ InOutputToPlist /\ ~clean /\ pc = "done" /\ raised = "none"
    /\ preKind = "dir"
    /\ \E a, b \in Artifacts :
         /\ a \notin written
         /\ kept[a] # NoFile /\ kept[a] # analyzer_result
         /\ fsFiles[a] = kept[a]
         /\ b \in written /\ preFiles[b] = NoFile

\* main has validated the metadata of a call that passed argparse
MainValidated ==
    /\ entry = "main" /\ pm.raised # "notcalled"
    /\ parser_type \in supported_converters

\* main accepted the metadata: no error of the validation,
\* output_to_plist entered with the dictionary, and transform reached with
\* it unless rmtree or makedirs raised
MetadataAccepted ==
    /\ pm.raised = "none"
    /\ ~error_log.logged
    /\ raised # "SystemExit"
    /\ ~metadata.none
    /\ pc = "done" =>
          \/ transform_args.called
          \/ /\ raised # "none"
             /\ ops # << >>
             /\ ops[Len(ops)] \in { "rmtree", "makedirs" }
    /\ transform_args.called => transform_args.metadata = metadata

\* C5 as stated: with all keys in the allow-list main accepts the entries
\* and the dictionary handed to transform maps the key of each entry to
\* the value of that entry, and holds no other key.
C5_EveryEntryVerbatim ==
    (MainValidated /\ AllAllowed(meta.entries))
        => /\ MetadataAccepted
           /\ DOMAIN metadata.dict = KeysOf(meta.entries)
           /\ \A k \in KeysOf(meta.entries) :
                \A nv \in ValuesOf(meta.entries, k) :
                    metadata.dict[k] = nv[2]

\* C5, amended: with all keys in the allow-list main accepts the entries
\* and the dictionary handed to transform maps each supplied key to the
\* value of the last entry that supplies it, verbatim (everything after
\* the first "="), and holds no other key.
C5_LastEntryVerbatim ==
    (MainValidated /\ AllAllowed(meta.entries))
        => /\ MetadataAccepted
           /\ DOMAIN metadata.dict = KeysOf(meta.entries)
           /\ \A k \in KeysOf(meta.entries) :
                \A nv \in ValuesOf(meta.entries, k) :
                    (\A other \in ValuesOf(meta.entries, k) :
                         other[1] <= nv[1])
                        => metadata.dict[k] = nv[2]

C5_Witness ==
    /\ MainPassedArgparse /\ transform_args.called
    /\ \E nv, other \in ValuesOf(meta.entries, analyzer_version) :
         /\ other[1] < nv[1]
         /\ other[2] # nv[2]
         /\ \E i \in 1..Len(nv[2]) : nv[2][i] = "="
         /\ transform_args.metadata.dict[analyzer_version] = nv[2]

\* C6: on entries of the form key=value process_metadata returns two
\* dictionaries with disjoint key sets whose union is the set of supplied
\* keys, a key being accepted exactly when it is in the allow-list; the
\* keys main reports are the supplied keys outside the allow-list.
C6_PartitionOfSuppliedKeys ==
    (entry = "main" /\ pm.raised # "notcalled" /\ AllWellFormed(meta.entries))
        => /\ pm.raised = "none"
           /\ (DOMAIN pm.valid) \cap (DOMAIN pm.invalid) = {}
           /\ (DOMAIN pm.valid) \cup (DOMAIN pm.invalid) = KeysOf(meta.entries)
           /\ DOMAIN pm.valid = KeysOf(meta.entries) \cap AllowedKeys
           /\ DOMAIN pm.invalid = KeysOf(meta.entries) \ AllowedKeys
           /\ (DOMAIN pm.invalid # {} => InvalidMetadataError)
           /\ (DOMAIN pm.invalid = {} => ~error_log.logged)

C6_Witness ==
    /\ entry = "main" /\ pm.raised = "none"
    /\ DOMAIN pm.valid # {}
    /\ DOMAIN pm.invalid # {}
    /\ error_log.logged

\* C7 as stated: the exit status of main tells three outcomes apart:
\* a completion with warnings ends with another status than a clean
\* completion, and a failure with another status than both.
C7_ThreeWayExitStatus ==
    MainDone
        => /\ (raised = "none" /\ warnings)
                => exit_status # main_exit_status("none", FALSE)
           /\ raised # "none"
                => /\ exit_status # main_exit_status("none", FALSE)
                   /\ exit_status # main_exit_status("none", TRUE)

\* C7, amended: the exit status of main tells two outcomes apart: an
\* invocation that completes, with or without parser-level warnings, ends
\* with status 0; one that fails ends with a non-zero status.
C7_TwoWayExitStatus ==
    MainDone
        => /\ raised = "none" => exit_status = 0
           /\ raised # "none" => exit_status \in { 1, 2 }

C7_Witness ==
    /\ MainDone /\ raised = "none" /\ warnings /\ exit_status = 0

\* C8: every entry is classified, also one without "=": a malformed or
\* disallowed entry ends main through the invalid-metadata error, with
\* nothing changed on disk, and through no other failure.
C8_EveryEntryClassified ==
    (MainPassedArgparse /\ ~meta.none /\ ~AllAllowed(meta.entries))
        => /\ pm.raised = "none"
           /\ raised = "SystemExit"
           /\ error_log.logged
           /\ DiskUntouched

\* what C9 says of every call besides the conditions of makedirs: the
\* order of the steps, the condition of rmtree, transform once on the
\* converter of the requested kind with the given input and metadata, and
\* what the run wrote still there when it returns
StepOrder ==
    /\ \A i, j \in 1..Len(ops) : i < j => Rank(ops[i]) < Rank(ops[j])
    /\ \A i \in 1..Len(ops) :
         /\ ops[i] = "rmtree" => (clean /\ preKind = "dir")
         /\ ops[i] = "transform" => InOutputToPlist
    /\ transform_args.called <=> (\E i \in 1..Len(ops) : ops[i] = "transform")
    /\ transform_args.called =>
         /\ transform_args.converter = parser_type
         /\ parser_type \in supported_converters
         /\ transform_args.analyzer_result = analyzer_result
         /\ transform_args.metadata = metadata
    /\ (pc = "done" /\ InOutputToPlist /\ raised = "none") =>
         /\ transform_args.called
         /\ \A a \in written : fsFiles[a] = analyzer_result

\* C9 as stated: within output_to_plist the removal comes first and only
\* with clean=true on a directory, the creation next and only when nothing
\* is at the path, then transform, once, on the converter of the requested
\* kind with the given input and metadata; what the run wrote is still
\* there when it returns.
C9_CreationOnlyWhenNothingThere ==
    entry # "none"
        => /\ StepOrder
           /\ \A i \in 1..Len(ops) :
                ops[i] = "makedirs" =>
                    \/ preKind = "absent" /\ ~preUnseen
                    \/ i > 1 /\ ops[i-1] = "rmtree"

\* C9, amended: within output_to_plist the removal comes first and only
\* with clean=true on a directory, the creation next and only when
\* os.path.exists sees nothing at the path (something may be there all the
\* same), then transform, once, on the converter of the requested kind
\* with the given input and metadata; what the run wrote is still there
\* when it returns.
C9_StepOrder ==
    entry # "none"
        => /\ StepOrder
           /\ \A i \in 1..Len(ops) :
                ops[i] = "makedirs" =>
                    \/ preKind = "absent"
                    \/ i > 1 /\ ops[i-1] = "rmtree"

C9_Witness ==
    /\ pc = "done" /\ raised = "none"
    /\ ops = << "rmtree", "makedirs", "transform" >>
    /\ written # {}

\* C10: whenever output_to_plist invokes transform, the output path exists
\* and is a directory, whatever was there at the start.
C10_TransformGetsDirectory ==
    /\ pc = "transform" => fsKind = "dir"
    /\ transform_args.called => transform_args.output_kind = "dir"

====
